---- MODULE Spec2Model ----
(***************************************************************************)
(* Contest reminder scheduler (src/src/scheduler_main.py, fetchers.py,     *)
(* helpers.py, whatsaap_api.py).  Time is counted in minutes.  A datetime  *)
(* is a record [wall, off, aware]: wall-clock minutes, UTC offset in       *)
(* minutes, and whether it carries a timezone; its instant is wall - off.  *)
(***************************************************************************)
EXTENDS Integers, Sequences, FiniteSets, TLC

\* ---------------------------------------------------------------- bounds
\* the clock stops at MaxTime; it is read every TickMinutes
MaxTime == 90
TickMinutes == 30
\* longest event list handed to the dedupe step alone
MaxDedupLen == 3

\* ------------------------------------------------------ program constants
\* timedelta(minutes=5), hours=1, upcoming_hours=72
REMIND_MINUTES == 5
INTERVAL_MINUTES == 60
UPCOMING_MINUTES == 4320
\* UTC offset of the configured TIMEZONE: a zone one hour east of UTC
TzOffset == 60

None == "None"
Threads == {"main", "hourly"}

\* ---------------------------------------------------------------- datetimes
Aware(w, o) == [wall |-> w, off |-> o, aware |-> TRUE]
Naive(w) == [wall |-> w, off |-> 0, aware |-> FALSE]
\* a missing start_dt (None)
NoDt == [wall |-> 0, off |-> 0, aware |-> FALSE, missing |-> TRUE]
Instant(d) == d.wall - d.off
\* pytz tz.localize(naive): attach the configured zone, wall clock kept
Localize(d) == [wall |-> d.wall, off |-> TzOffset, aware |-> TRUE]
\* aware.astimezone(tz): same instant, wall clock of the configured zone
AsTimezone(d) == [wall |-> Instant(d) + TzOffset, off |-> TzOffset, aware |-> TRUE]
MinusMinutes(d, m) == [d EXCEPT !.wall = d.wall - m]
\* datetime.isoformat(): the wall clock followed by the offset (none if naive)
IsoFormat(d) == IF d.aware THEN <<d.wall, d.off>> ELSE <<d.wall>>
\* strftime("%Y-%m-%d %H:%M %Z"): wall clock and zone abbreviation
StrfPretty(d) == [text |-> d.wall, zone |-> d.off]
\* int(datetime.timestamp()): epoch seconds
Timestamp(d) == Instant(d) * 60


\* ------------------------------------------------------------ manual source
\* A CSV row as csv.DictReader hands it over: a field is a string, or None when
\* the line is too short.  start is [kind, dt]: kind "iso" parses to dt, "bad"
\* makes isoparse raise, "none" is a missing field.
Row(t, k, d, p) == [title |-> t, start |-> [kind |-> k, dt |-> d], phone |-> p]
RowDiv2 == Row("Div 2 Round", "iso", Aware(35, 0), "+1555")
RowNaive == Row("Local Cup", "iso", Naive(60), "")
RowNoTitle == Row("", "iso", Aware(35, 0), "+1777")
RowBadDate == Row("Broken", "bad", NoDt, "+1777")
RowShort == Row("Short", "none", NoDt, None)

\* read_contests, one row: "skip" (no title, or unparsable date), "raise"
\* (None.strip() on a short row) or "yield"
RowResult(r) ==
    IF r.title = None \/ r.title = "" THEN "skip"
    ELSE IF r.start.kind = "none" \/ r.phone = None THEN "raise"
    ELSE IF r.start.kind = "bad" THEN "skip"
    ELSE "yield"

RowDict(r) == [title |-> r.title, start_dt |-> r.start.dt, phone |-> r.phone]

\* the file the process reads: exists = FALSE when contests.csv is absent
Csv(e, rs) == [exists |-> e, rows |-> rs]

\* schedule_from_fetcher's fallback: phone of the first row read_contests
\* yields; None when the file is missing, empty, or reading raises
RECURSIVE FirstRowPhoneOf(_)
FirstRowPhoneOf(rows) ==
    IF rows = <<>> THEN None
    ELSE LET res == RowResult(Head(rows)) IN
         IF res = "yield" THEN Head(rows).phone
         ELSE IF res = "raise" THEN None
         ELSE FirstRowPhoneOf(Tail(rows))

FirstRowPhone(csv) == IF csv.exists THEN FirstRowPhoneOf(csv.rows) ELSE None

Falsy(p) == p = None \/ p = ""

\* lines 57-68: default_phone or env, else the first CSV row's phone
ResolvePassPhone(default_phone, env, csv) ==
    LET first == IF Falsy(default_phone) THEN env ELSE default_phone IN
    IF ~Falsy(first) THEN first
    ELSE LET fb == FirstRowPhone(csv) IN IF Falsy(fb) THEN None ELSE fb

\* get_default_phone: env, else the first non-empty phone among yielded rows
RECURSIVE FirstNonEmptyPhoneOf(_)
FirstNonEmptyPhoneOf(rows) ==
    IF rows = <<>> THEN None
    ELSE LET res == RowResult(Head(rows)) IN
         IF res = "raise" THEN None
         ELSE IF res = "yield" /\ ~Falsy(Head(rows).phone) THEN Head(rows).phone
         ELSE FirstNonEmptyPhoneOf(Tail(rows))

get_default_phone(env, csv) ==
    IF ~Falsy(env) THEN env
    ELSE IF csv.exists THEN FirstNonEmptyPhoneOf(csv.rows) ELSE None

\* ------------------------------------------------------------------ fetchers
Event(p, t, d, u) == [platform |-> p, title |-> t, start_dt |-> d, url |-> u]
Sources == {"Codeforces", "CodeChef", "LeetCode"}

RECURSIVE UpcomingOf(_, _, _, _)
\* events of platform p kept by the look-ahead filter (start - now > 72h dropped)
UpcomingOf(site, p, now, within) ==
    IF site = <<>> THEN <<>>
    ELSE LET e == Head(site)
             rest == UpcomingOf(Tail(site), p, now, within) IN
         IF e.platform = p /\ ~(Instant(e.start_dt) - now > within)
         THEN <<e>> \o rest ELSE rest

\* one fetcher: the site's upcoming events, or nothing when the request fails
FetchSource(site, p, up, now, within) ==
    IF p \in up THEN UpcomingOf(site, p, now, within) ELSE <<>>

DedupKey(e) ==
    <<e.platform, e.title, IF e.start_dt = NoDt THEN <<>> ELSE IsoFormat(e.start_dt)>>

RECURSIVE DedupInto(_, _, _)
DedupInto(events, seen, out) ==
    IF events = <<>> THEN out
    ELSE LET e == Head(events) IN
         IF DedupKey(e) \in seen
         THEN DedupInto(Tail(events), seen, out)
         ELSE DedupInto(Tail(events), seen \cup {DedupKey(e)}, Append(out, e))

\* unique[key] = e without the membership test: the last occurrence wins
Dedupe_Overwrite(events) ==
    LET f == DedupInto(events, {}, <<>>) IN
    [k \in DOMAIN f |->
        events[CHOOSE i \in DOMAIN events :
                  /\ DedupKey(events[i]) = DedupKey(f[k])
                  /\ \A m \in DOMAIN events :
                        m > i => DedupKey(events[m]) # DedupKey(f[k])]]

\* fetch_all's dedupe loop: dict keyed by (platform, title, isoformat), first wins
Dedupe(events) == DedupInto(events, {}, <<>>)

fetch_all(site, up, now, within) ==
    Dedupe(FetchSource(site, "Codeforces", up, now, within)
           \o FetchSource(site, "CodeChef", up, now, within)
           \o FetchSource(site, "LeetCode", up, now, within))


\* ------------------------------------------------------------ schedule_event
\* line 24-27: remind_dt = start_dt - 5 minutes, localized when naive
RemindDt(start_dt) ==
    LET r == MinusMinutes(start_dt, REMIND_MINUTES) IN
    IF r.aware THEN r ELSE Localize(r)

\* the comparison written strict
IsPast_Strict(remind_dt, t) == Instant(remind_dt) < t

\* line 29: remind_dt <= now
IsPast(remind_dt, t) == Instant(remind_dt) <= t

\* line 20-21: f"{platform}__{title}__{int(start_dt.timestamp())}__{phone}"
make_job_id(platform, title, start_dt, phone) ==
    <<platform, title, Timestamp(start_dt), phone>>

\* the duplicate check left out
IsScheduled_Never(job_id, registry) == FALSE

\* line 33: job_id in SCHEDULED_KEYS
IsScheduled(job_id, registry) == job_id \in registry

\* the engine's job store refuses an id it already holds (ConflictingIdError)
AddJobRaises(store, job_id) == \E j \in store : j.id = job_id

\* the one-shot job handed to add_job: trigger date and the closure's variables
JobOf(c) ==
    [id |-> c.job_id, run_date |-> Instant(c.remind_dt), platform |-> c.platform,
     title |-> c.title, start_dt |-> c.start_dt, phone |-> c.phone]

\* line 37-39: the arguments job() passes to send_template
MessageOf(j) ==
    [id |-> j.id, to |-> j.phone, var1 |-> <<j.platform, ": ", j.title>>,
     var2 |-> StrfPretty(AsTimezone(j.start_dt))]

\* line 70-74: fetched start_dt made aware in the configured zone
NormalizeFetched(d) == IF d.aware THEN AsTimezone(d) ELSE Localize(d)

\* line 104-105: a manual start_dt is localized only when naive
NormalizeManual(d) == IF d.aware THEN d ELSE Localize(d)

\* the second add_job forgotten
WeeklyJobs_OnlyFirst(phone) ==
    <<[id |-> "weekly_leetcode", day |-> "sun", hour |-> 7, minute |-> 55, phone |-> phone]>>

\* line 130-131: the two cron jobs of the weekly installer, in call order
WeeklyJobs(phone) ==
    <<[id |-> "weekly_leetcode", day |-> "sun", hour |-> 7, minute |-> 55, phone |-> phone],
      [id |-> "weekly_codechef", day |-> "wed", hour |-> 19, minute |-> 55, phone |-> phone]>>

SendOutcomes == {"ok", "non2xx", "timeout"}

\* one more invocation with arguments m
Counted(log, m) ==
    [x \in DOMAIN log \cup {m} |->
        IF x = m THEN (IF m \in DOMAIN log THEN log[m] + 1 ELSE 1) ELSE log[x]]


\* -------------------------------------------------------------------- state
VARIABLES
    now,             \* the clock, minutes
    env,             \* DEFAULT_PHONE of the environment, or None
    csv,             \* contests.csv
    site,            \* what the contest sites list
    SCHEDULED_KEYS,  \* line 18
    jobs,            \* the engine's pending one-shot jobs
    hourlyAt,        \* next run of fetch_every_hour, -1 while not registered
    weekly,          \* the engine's cron jobs
    engine,          \* "new", "running", "stopped"
    pc,              \* position of the main thread and of the hourly pool thread
    todo,            \* per thread: rows or events still to go through
    call,            \* per thread: locals of the schedule_event call in progress
    ret,             \* per thread: where schedule_event returns to
    outcome,         \* per thread: how the last schedule_event call ended
    passOut,         \* per thread: how the last fetch-and-schedule pass ended
    running,         \* job() bodies in progress on pool threads
    sent,            \* send_template invocations: arguments -> how many times
    finished,        \* job() bodies that have ended
    regs,            \* every add_job that succeeded: id, run date, now read by the call
    interrupted,     \* a KeyboardInterrupt was delivered
    dedupIn,         \* input of the dedupe step under test
    dedupOut         \* its output

cfgVars == <<env, csv, site>>
engVars == <<jobs, hourlyAt, weekly, engine>>
thrVars == <<pc, todo, call, ret, outcome, passOut>>
cbVars == <<running, sent, finished>>
dedupVars == <<dedupIn, dedupOut>>
vars == <<now, cfgVars, SCHEDULED_KEYS, engVars, thrVars, cbVars, regs, interrupted, dedupVars>>

NoCall ==
    [platform |-> "", title |-> "", start_dt |-> NoDt, phone |-> "",
     remind_dt |-> NoDt, now |-> 0, job_id |-> <<>>, registry0 |-> {}]

Terminal == {"crashed", "killed", "stopped"}
Alive == pc["main"] \notin Terminal

\* ------------------------------------------------------------ configurations
Envs == {None, "+1999"}
CsvChoices ==
    {Csv(FALSE, <<>>), Csv(TRUE, <<>>), Csv(TRUE, <<RowDiv2>>),
     Csv(TRUE, <<RowNaive, RowDiv2>>), Csv(TRUE, <<RowNoTitle, RowBadDate>>),
     Csv(TRUE, <<RowDiv2, RowShort>>)}
SiteListing ==
    <<Event("Codeforces", "Round A", Aware(95, 0), "cf/1"),
      Event("LeetCode", "Weekly", Aware(125, 0), "lc/1"),
      Event("LeetCode", "Weekly", Aware(455, 330), "lc/2"),
      Event("Codeforces", "Round Far", Aware(4350, 0), "cf/2")>>

Init ==
    /\ now = 0
    /\ env \in Envs
    /\ csv \in CsvChoices
    /\ site = SiteListing
    /\ SCHEDULED_KEYS = {}
    /\ jobs = {}
    /\ hourlyAt = -1
    /\ weekly = {}
    /\ engine = "new"
    /\ pc = [t \in Threads |-> IF t = "main" THEN "start" ELSE "idle"]
    /\ todo = [t \in Threads |-> <<>>]
    /\ call = [t \in Threads |-> NoCall]
    /\ ret = [t \in Threads |-> "idle"]
    /\ outcome = [t \in Threads |-> "NONE"]
    /\ passOut = [t \in Threads |-> "NONE"]
    /\ running = {}
    /\ sent = [m \in {} |-> 0]
    /\ finished = {}
    /\ regs = {}
    /\ interrupted = FALSE
    /\ dedupIn = <<>>
    /\ dedupOut = <<>>

\* ----------------------------------------------------- schedule_event, steps
\* the arguments of a schedule_event call about to run; registry0 remembers the
\* registry the call found
Args(platform, title, start_dt, phone, registry) ==
    [platform |-> platform, title |-> title, start_dt |-> start_dt, phone |-> phone,
     remind_dt |-> NoDt, now |-> 0, job_id |-> <<>>, registry0 |-> registry]

\* lines 24-32: the call's locals once the clock has been read as t
Locals(c, t) ==
    [c EXCEPT !.remind_dt = RemindDt(c.start_dt),
              !.now = t,
              !.job_id = make_job_id(c.platform, c.title, RemindDt(c.start_dt), c.phone)]

\* lines 29-35: how the two early returns decide
CheckOutcome(c, registry) ==
    IF IsPast(c.remind_dt, c.now) THEN "SKIPPED_PAST"
    ELSE IF IsScheduled(c.job_id, registry) THEN "SKIPPED_DUPLICATE"
    ELSE "NONE"

\* lines 24-28 for thread t: remind_dt, and the clock read into the local now
ScheduleNow(t) ==
    /\ Alive
    /\ pc[t] = "sched_now"
    /\ call' = [call EXCEPT ![t] = Locals(call[t], now)]
    /\ pc' = [pc EXCEPT ![t] = "sched_check"]
    /\ UNCHANGED <<now, cfgVars, SCHEDULED_KEYS, engVars, todo, ret, outcome, passOut,
                   cbVars, regs, interrupted, dedupVars>>

\* lines 29-35 for thread t: past check against the local now, job id,
\* duplicate check against the registry as it is when line 33 runs
ScheduleCheck(t) ==
    /\ Alive
    /\ pc[t] = "sched_check"
    /\ LET c == call[t]
           o == CheckOutcome(c, SCHEDULED_KEYS)
       IN  /\ outcome' = [outcome EXCEPT ![t] = o]
           /\ IF o = "NONE"
              THEN /\ call' = [call EXCEPT ![t] = c]
                   /\ pc' = [pc EXCEPT ![t] = "sched_add"]
              ELSE /\ call' = [call EXCEPT ![t] = NoCall]
                   /\ pc' = [pc EXCEPT ![t] = ret[t]]
    /\ UNCHANGED <<now, cfgVars, SCHEDULED_KEYS, engVars, todo, ret, passOut, cbVars,
                   regs, interrupted, dedupVars>>

\* SCHEDULED_KEYS.add moved above add_job inside the try
SchedAdd_InsertFirst(t) ==
    /\ Alive
    /\ pc[t] = "sched_add"
    /\ SCHEDULED_KEYS' = SCHEDULED_KEYS \cup {call[t].job_id}
    /\ IF AddJobRaises(jobs, call[t].job_id)
       THEN /\ outcome' = [outcome EXCEPT ![t] = "ERROR"]
            /\ pc' = [pc EXCEPT ![t] = ret[t]]
            /\ call' = [call EXCEPT ![t] = NoCall]
            /\ UNCHANGED <<jobs, regs>>
       ELSE /\ jobs' = jobs \cup {JobOf(call[t])}
            /\ regs' = regs \cup {[id |-> call[t].job_id,
                                   run_date |-> Instant(call[t].remind_dt),
                                   now |-> call[t].now]}
            /\ pc' = [pc EXCEPT ![t] = "sched_ins"]
            /\ UNCHANGED <<outcome, call>>
    /\ UNCHANGED <<now, cfgVars, hourlyAt, weekly, engine, todo, ret,
                   passOut, cbVars, interrupted, dedupVars>>

\* line 42-43 (and 46-47 when add_job raises)
SchedAdd(t) ==
    /\ Alive
    /\ pc[t] = "sched_add"
    /\ IF AddJobRaises(jobs, call[t].job_id)
       THEN /\ outcome' = [outcome EXCEPT ![t] = "ERROR"]
            /\ pc' = [pc EXCEPT ![t] = ret[t]]
            /\ call' = [call EXCEPT ![t] = NoCall]
            /\ UNCHANGED <<jobs, regs>>
       ELSE /\ jobs' = jobs \cup {JobOf(call[t])}
            /\ regs' = regs \cup {[id |-> call[t].job_id,
                                   run_date |-> Instant(call[t].remind_dt),
                                   now |-> call[t].now]}
            /\ pc' = [pc EXCEPT ![t] = "sched_ins"]
            /\ UNCHANGED <<outcome, call>>
    /\ UNCHANGED <<now, cfgVars, SCHEDULED_KEYS, hourlyAt, weekly, engine, todo, ret,
                   passOut, cbVars, interrupted, dedupVars>>

\* line 44-45
SchedInsert(t) ==
    /\ Alive
    /\ pc[t] = "sched_ins"
    /\ SCHEDULED_KEYS' = SCHEDULED_KEYS \cup {call[t].job_id}
    /\ outcome' = [outcome EXCEPT ![t] = "SCHEDULED"]
    /\ pc' = [pc EXCEPT ![t] = ret[t]]
    /\ call' = [call EXCEPT ![t] = NoCall]
    /\ UNCHANGED <<now, cfgVars, engVars, todo, ret, passOut, cbVars, regs,
                   interrupted, dedupVars>>

\* ------------------------------------------------------ schedule_from_fetcher
PassReturn(t) == IF t = "main" THEN "add_hourly" ELSE "idle"

\* line 51: fetch_all; each source answers or fails
PassFetch(t) ==
    /\ Alive
    /\ pc[t] = "fetch"
    /\ \E up \in SUBSET Sources :
          todo' = [todo EXCEPT ![t] = fetch_all(site, up, now, UPCOMING_MINUTES)]
    /\ pc' = [pc EXCEPT ![t] = "loop"]
    /\ passOut' = [passOut EXCEPT ![t] = "NONE"]
    /\ UNCHANGED <<now, cfgVars, SCHEDULED_KEYS, engVars, call, ret, outcome, cbVars,
                   regs, interrupted, dedupVars>>

\* lines 52-75 for one event, up to the call of schedule_event
PassEvent(t) ==
    /\ Alive
    /\ pc[t] = "loop"
    /\ todo[t] # <<>>
    /\ LET ev == Head(todo[t])
           phone == ResolvePassPhone(None, env, csv)
       IN  IF phone = None
           THEN /\ passOut' = [passOut EXCEPT ![t] = "ABORTED"]
                /\ pc' = [pc EXCEPT ![t] = PassReturn(t)]
                /\ todo' = [todo EXCEPT ![t] = <<>>]
                /\ UNCHANGED <<call, ret, outcome>>
           ELSE /\ call' = [call EXCEPT ![t] =
                            Args(ev.platform, ev.title, NormalizeFetched(ev.start_dt), phone,
                                 SCHEDULED_KEYS)]
                /\ ret' = [ret EXCEPT ![t] = "loop"]
                /\ pc' = [pc EXCEPT ![t] = "sched_now"]
                /\ todo' = [todo EXCEPT ![t] = Tail(todo[t])]
                /\ UNCHANGED <<passOut, outcome>>
    /\ UNCHANGED <<now, cfgVars, SCHEDULED_KEYS, engVars, cbVars, regs, interrupted,
                   dedupVars>>

\* the for loop runs out
PassEnd(t) ==
    /\ Alive
    /\ pc[t] = "loop"
    /\ todo[t] = <<>>
    /\ passOut' = [passOut EXCEPT ![t] = "DONE"]
    /\ pc' = [pc EXCEPT ![t] = PassReturn(t)]
    /\ UNCHANGED <<now, cfgVars, SCHEDULED_KEYS, engVars, todo, call, ret, outcome,
                   cbVars, regs, interrupted, dedupVars>>


\* ----------------------------------------------------------------------- main
\* lines 92-99: build and start the engine; look for contests.csv
Start ==
    /\ pc["main"] = "start"
    /\ engine' = "running"
    /\ IF csv.exists
       THEN /\ pc' = [pc EXCEPT !["main"] = "csv"]
            /\ todo' = [todo EXCEPT !["main"] = csv.rows]
       ELSE /\ pc' = [pc EXCEPT !["main"] = "fetch"]
            /\ UNCHANGED todo
    /\ UNCHANGED <<now, cfgVars, SCHEDULED_KEYS, jobs, hourlyAt, weekly, call, ret,
                   outcome, passOut, cbVars, regs, interrupted, dedupVars>>

\* lines 100-106 for one row of read_contests, up to the call of schedule_event; a
\* short row raises inside the generator and nothing catches it
CsvRow ==
    /\ pc["main"] = "csv"
    /\ todo["main"] # <<>>
    /\ LET r == Head(todo["main"])
           res == RowResult(r)
       IN  IF res = "raise"
           THEN /\ pc' = [pc EXCEPT !["main"] = "crashed"]
                /\ UNCHANGED <<todo, call, ret, outcome>>
           ELSE IF res = "skip"
           THEN /\ todo' = [todo EXCEPT !["main"] = Tail(todo["main"])]
                /\ UNCHANGED <<pc, call, ret, outcome>>
           ELSE /\ call' = [call EXCEPT !["main"] =
                            Args("Manual", RowDict(r).title,
                                 NormalizeManual(RowDict(r).start_dt), RowDict(r).phone,
                                 SCHEDULED_KEYS)]
                /\ ret' = [ret EXCEPT !["main"] = "csv"]
                /\ pc' = [pc EXCEPT !["main"] = "sched_now"]
                /\ todo' = [todo EXCEPT !["main"] = Tail(todo["main"])]
                /\ UNCHANGED outcome
    /\ UNCHANGED <<now, cfgVars, SCHEDULED_KEYS, engVars, passOut, cbVars, regs,
                   interrupted, dedupVars>>

\* line 108-109: the manual rows are done, the initial pass begins
CsvEnd ==
    /\ pc["main"] = "csv"
    /\ todo["main"] = <<>>
    /\ pc' = [pc EXCEPT !["main"] = "fetch"]
    /\ UNCHANGED <<now, cfgVars, SCHEDULED_KEYS, engVars, todo, call, ret, outcome,
                   passOut, cbVars, regs, interrupted, dedupVars>>

\* line 112: the interval job, first run one hour from now
AddHourly ==
    /\ pc["main"] = "add_hourly"
    /\ hourlyAt' = now + INTERVAL_MINUTES
    /\ pc' = [pc EXCEPT !["main"] = "weekly"]
    /\ UNCHANGED <<now, cfgVars, SCHEDULED_KEYS, jobs, weekly, engine, todo, call, ret,
                   outcome, passOut, cbVars, regs, interrupted, dedupVars>>

\* try-block of lines 129-135: the add_job calls in order, stopping at the first
\* that raises
RECURSIVE AddAllOrStop(_, _)
AddAllOrStop(store, new) ==
    IF new = <<>> THEN store
    ELSE IF AddJobRaises(store, Head(new).id) THEN store
    ELSE AddAllOrStop(store \cup {Head(new)}, Tail(new))

\* lines 117-135
InstallWeekly ==
    /\ pc["main"] = "weekly"
    /\ LET phone == get_default_phone(env, csv)
       IN  weekly' = IF Falsy(phone) THEN weekly
                     ELSE AddAllOrStop(weekly, WeeklyJobs(phone))
    /\ pc' = [pc EXCEPT !["main"] = "sleep"]
    /\ UNCHANGED <<now, cfgVars, SCHEDULED_KEYS, jobs, hourlyAt, engine, todo, call, ret,
                   outcome, passOut, cbVars, regs, interrupted, dedupVars>>

\* KeyboardInterrupt: caught only in the sleep loop of lines 137-141, where it
\* leads to scheduler.shutdown(); anywhere earlier it ends the process
Interrupt ==
    /\ pc["main"] \notin Terminal \cup {"shutdown"}
    /\ interrupted' = TRUE
    /\ IF pc["main"] = "sleep"
       THEN /\ pc' = [pc EXCEPT !["main"] = "shutdown"]
            /\ engine' = "stopped"
       ELSE /\ pc' = [pc EXCEPT !["main"] = "killed"]
            /\ UNCHANGED engine
    /\ UNCHANGED <<now, cfgVars, SCHEDULED_KEYS, jobs, hourlyAt, weekly, todo, call, ret,
                   outcome, passOut, cbVars, regs, dedupVars>>

\* line 141-142: shutdown() returns once the pool's running jobs have ended
Shutdown ==
    /\ pc["main"] = "shutdown"
    /\ running = {}
    /\ pc["hourly"] = "idle"
    /\ pc' = [pc EXCEPT !["main"] = "stopped"]
    /\ UNCHANGED <<now, cfgVars, SCHEDULED_KEYS, engVars, todo, call, ret, outcome,
                   passOut, cbVars, regs, interrupted, dedupVars>>

\* --------------------------------------------------------------------- engine
\* the interval job comes due and no instance of it is running
HourlyDispatch ==
    /\ Alive
    /\ engine = "running"
    /\ hourlyAt # -1
    /\ hourlyAt <= now
    /\ pc["hourly"] = "idle"
    /\ pc' = [pc EXCEPT !["hourly"] = "fetch"]
    /\ hourlyAt' = hourlyAt + INTERVAL_MINUTES
    /\ UNCHANGED <<now, cfgVars, SCHEDULED_KEYS, jobs, weekly, engine, todo, call, ret,
                   outcome, passOut, cbVars, regs, interrupted, dedupVars>>

\* a date job comes due: the engine drops it from the store and runs job(),
\* unless the run date lies further back than the grace the engine allows (one
\* second by default, below the clock's resolution here): then the run is
\* missed and job() is never called
Dispatch ==
    /\ Alive
    /\ engine = "running"
    /\ \E j \in jobs :
          /\ j.run_date <= now
          /\ jobs' = jobs \ {j}
          /\ running' = IF j.run_date < now THEN running
                        ELSE running \cup {[job |-> j, at |-> "send", result |-> "none"]}
    /\ UNCHANGED <<now, cfgVars, SCHEDULED_KEYS, hourlyAt, weekly, engine, thrVars, sent,
                   finished, regs, interrupted, dedupVars>>

\* lines 37-39: send_template; a timeout raises out of requests.post and out
\* of job(), the other outcomes return
JobSend ==
    /\ Alive
    /\ \E r \in running, o \in SendOutcomes :
          /\ r.at = "send"
          /\ sent' = Counted(sent, MessageOf(r.job))
          /\ IF o = "timeout"
             THEN /\ running' = running \ {r}
                  /\ finished' = finished \cup {[job |-> r.job, result |-> o]}
             ELSE /\ running' = (running \ {r}) \cup {[r EXCEPT !.at = "discard", !.result = o]}
                  /\ UNCHANGED finished
    /\ UNCHANGED <<now, cfgVars, SCHEDULED_KEYS, engVars, thrVars, regs, interrupted,
                   dedupVars>>

\* line 41
JobDiscard ==
    /\ Alive
    /\ \E r \in running :
          /\ r.at = "discard"
          /\ SCHEDULED_KEYS' = SCHEDULED_KEYS \ {r.job.id}
          /\ running' = running \ {r}
          /\ finished' = finished \cup {[job |-> r.job, result |-> r.result]}
    /\ UNCHANGED <<now, cfgVars, engVars, thrVars, sent, regs, interrupted, dedupVars>>

\* time passes; a running engine dispatches what is due before it passes on
Tick ==
    /\ Alive
    /\ now + TickMinutes <= MaxTime
    /\ engine = "running" =>
          /\ \A j \in jobs : j.run_date > now
          /\ hourlyAt = -1 \/ hourlyAt > now \/ pc["hourly"] # "idle"
    /\ now' = now + TickMinutes
    /\ UNCHANGED <<cfgVars, SCHEDULED_KEYS, engVars, thrVars, cbVars, regs, interrupted,
                   dedupVars>>

Next ==
    \/ Start
    \/ CsvRow
    \/ CsvEnd
    \/ \E t \in Threads : PassFetch(t)
    \/ \E t \in Threads : PassEvent(t)
    \/ \E t \in Threads : PassEnd(t)
    \/ \E t \in Threads : ScheduleNow(t)
    \/ \E t \in Threads : ScheduleCheck(t)
    \/ \E t \in Threads : SchedAdd(t)
    \/ \E t \in Threads : SchedInsert(t)
    \/ AddHourly
    \/ InstallWeekly
    \/ Interrupt
    \/ Shutdown
    \/ HourlyDispatch
    \/ Dispatch
    \/ JobSend
    \/ JobDiscard
    \/ Tick

Spec == Init /\ [][Next]_vars


\* ------------------------------------------- the pass run without interleaving
\* schedule_event from entry to return on a store st = [keys, jobs, tried];
\* tried collects the ids handed to add_job
schedule_event(st, c) ==
    IF CheckOutcome(c, st.keys) # "NONE" THEN st
    ELSE IF AddJobRaises(st.jobs, c.job_id)
    THEN [st EXCEPT !.tried = @ \cup {c.job_id}]
    ELSE [keys |-> st.keys \cup {c.job_id},
          jobs |-> st.jobs \cup {JobOf(c)},
          tried |-> st.tried \cup {c.job_id}]

RECURSIVE ScheduleAll(_, _, _, _)
ScheduleAll(st, events, phone, t) ==
    IF events = <<>> THEN st
    ELSE LET ev == Head(events)
             c == Locals(Args(ev.platform, ev.title, NormalizeFetched(ev.start_dt), phone,
                              st.keys), t)
         IN  ScheduleAll(schedule_event(st, c), Tail(events), phone, t)

\* schedule_from_fetcher from entry to return, sources up answering, clock at t
schedule_from_fetcher(st, up, t) ==
    LET events == fetch_all(site, up, t, UPCOMING_MINUTES)
        phone == ResolvePassPhone(None, env, csv)
    IN  IF phone = None THEN st ELSE ScheduleAll(st, events, phone, t)

Store == [keys |-> SCHEDULED_KEYS, jobs |-> jobs, tried |-> {}]
PassStarts == \E t \in Threads : pc[t] = "fetch"
OncePass(up) == schedule_from_fetcher(Store, up, now)
TwicePass(up) == schedule_from_fetcher([OncePass(up) EXCEPT !.tried = {}], up, now)

\* C1: wherever a fetch-and-schedule pass starts, running it twice in a row on
\* the same upstream listing leaves the same registry and the same pending
\* one-shot jobs as running it once, and the second run hands no id to add_job
\* that is already in the registry.
C1_PassIdempotent ==
    PassStarts =>
        \A up \in SUBSET Sources :
            /\ TwicePass(up).keys = OncePass(up).keys
            /\ TwicePass(up).jobs = OncePass(up).jobs
            /\ TwicePass(up).tried \cap OncePass(up).keys = {}

C1_Witness ==
    /\ PassStarts
    /\ \E up \in SUBSET Sources :
          /\ OncePass(up).jobs # jobs
          /\ OncePass(up).keys # SCHEDULED_KEYS
          /\ TwicePass(up).jobs = OncePass(up).jobs

PendingIds == {j.id : j \in jobs}

\* no schedule_event call sits between add_job and the insert, no job() body
\* between being fired and its trailing discard
Settled == (\A t \in Threads : pc[t] # "sched_ins") /\ running = {}

\* C2: a key is in SCHEDULED_KEYS exactly when a one-shot job with that key is
\* pending in the engine and has not fired (taken at the states where neither
\* schedule_event nor a job body is halfway through its update, which is the
\* reading kindest to the code).
C2_RegistryMatchesEngine == (Alive /\ Settled) => SCHEDULED_KEYS = PendingIds

\* what send_template must have been called with for job j
ExpectedMessage(j) ==
    [id |-> j.id, to |-> j.phone, var1 |-> <<j.platform, ": ", j.title>>,
     var2 |-> [text |-> Instant(j.start_dt) + TzOffset, zone |-> TzOffset]]

\* C3: once a fired job's body has ended, send_template was called exactly once
\* with the job's recipient, title line and start time in the configured zone,
\* and the job's key is no longer in the registry, whatever the transport did.
C3_FiredSentOnceKeyRemoved ==
    \A f \in finished :
        /\ ExpectedMessage(f.job) \in DOMAIN sent
        /\ sent[ExpectedMessage(f.job)] = 1
        /\ f.job.id \notin SCHEDULED_KEYS


\* a schedule_event call of thread t leaves its checks (lines 29-35) in this step
ChecksNow(t) == pc[t] = "sched_check" /\ pc'[t] \in {"sched_add", ret[t]}

C6_OnlyInterruptEndsProcess ==
    pc["main"] \in Terminal => (interrupted /\ engine # "running")

\* C7: a pass is aborted only when neither the environment nor the manual
\* source yields a recipient, and every fetched event is scheduled for the
\* environment default if set, else the first phone value found in the manual
\* source (no override is ever passed).
C7_RecipientResolution ==
    \A t \in Threads :
        /\ passOut[t] = "ABORTED" => get_default_phone(env, csv) = None
        /\ (pc[t] = "sched_check" /\ call[t].platform \in Sources) =>
               call[t].phone = get_default_phone(env, csv)

\* a recipient is available: the environment has one, or some row that
\* read_contests yields before any failure carries a phone
RecipientAvailable ==
    \/ ~Falsy(env)
    \/ /\ csv.exists
       /\ \E i \in DOMAIN csv.rows :
             /\ RowResult(csv.rows[i]) = "yield"
             /\ ~Falsy(csv.rows[i].phone)
             /\ \A k \in 1..(i - 1) : RowResult(csv.rows[k]) # "raise"

Installed == pc["main"] \in {"sleep", "shutdown", "stopped"}

\* C8: once the weekly installation step has run, the engine holds exactly the
\* two weekly jobs (Sunday 07:55, Wednesday 19:55) when a recipient is
\* available and none otherwise; a single weekly job is never installed alone.
C8_WeeklyBothOrNone ==
    /\ Cardinality(weekly) # 1
    /\ Installed =>
          IF RecipientAvailable
          THEN /\ Cardinality(weekly) = 2
               /\ \E j \in weekly : j.id = "weekly_leetcode" /\ j.day = "sun"
                                    /\ j.hour = 7 /\ j.minute = 55
               /\ \E j \in weekly : j.id = "weekly_codechef" /\ j.day = "wed"
                                    /\ j.hour = 19 /\ j.minute = 55
          ELSE weekly = {}

C8_Witness == Installed /\ RecipientAvailable /\ Cardinality(weekly) = 2

\* C10: the unguarded registry accesses never interleave so that a key is
\* inserted when its job has already fired and ended, a key is removed while its job
\* is still pending, or two schedule_event calls are both past the
\* contains-check for the same key.
C10_RegistryAccessesAtomic ==
    /\ [][\A k \in SCHEDULED_KEYS' \ SCHEDULED_KEYS :
            k \in PendingIds' \/ \E r \in running' : r.job.id = k]_vars
    /\ [][\A k \in SCHEDULED_KEYS \ SCHEDULED_KEYS' : \A j \in jobs : j.id # k]_vars
    /\ [](\A t1, t2 \in Threads :
            (t1 # t2 /\ pc[t1] \in {"sched_add", "sched_ins"}
                     /\ pc[t2] \in {"sched_add", "sched_ins"})
                => call[t1].job_id # call[t2].job_id)


\* C11: within one process, over every interleaving of passes and job firings,
\* send_template is invoked at most once for any job key (platform, title,
\* reminder time, recipient): a key whose job has fired is never registered and
\* fired again.
C11_AtMostOncePerKey == \A m \in DOMAIN sent : sent[m] <= 1


\* ------------------------------------------ an engine that already holds the id
\* The store refuses a job only under an id it already holds.  The process
\* builds its engine with an empty in-memory store and registers ids nowhere
\* else, so what follows starts a pass on an engine that holds jobs under the
\* ids the pass computes, put there by another registrant.
ForeignJob(ev, phone) ==
    [JobOf(Locals(Args(ev.platform, ev.title, NormalizeFetched(ev.start_dt), phone, {}), 0))
        EXCEPT !.title = "foreign"]
ForeignJobs == {ForeignJob(SiteListing[i], "+1999") : i \in DOMAIN SiteListing}

InitCollide ==
    /\ now \in {0, TickMinutes}
    /\ env \in Envs
    /\ csv = Csv(FALSE, <<>>)
    /\ site = SiteListing
    /\ SCHEDULED_KEYS = {}
    /\ jobs \in SUBSET ForeignJobs
    /\ hourlyAt = -1
    /\ weekly = {}
    /\ engine = "running"
    /\ pc = [t \in Threads |-> IF t = "main" THEN "fetch" ELSE "idle"]
    /\ todo = [t \in Threads |-> <<>>]
    /\ call = [t \in Threads |-> NoCall]
    /\ ret = [t \in Threads |-> "idle"]
    /\ outcome = [t \in Threads |-> "NONE"]
    /\ passOut = [t \in Threads |-> "NONE"]
    /\ running = {}
    /\ sent = [m \in {} |-> 0]
    /\ finished = {}
    /\ regs = {}
    /\ interrupted = FALSE
    /\ dedupIn = <<>>
    /\ dedupOut = <<>>

NextPass ==
    \/ PassFetch("main")
    \/ PassEvent("main")
    \/ ScheduleNow("main")
    \/ ScheduleCheck("main")
    \/ SchedAdd("main")
    \/ SchedInsert("main")
    \/ PassEnd("main")

SpecCollide == InitCollide /\ [][NextPass]_vars

\* C5: when add_job raises (the store already holds the id), the call ends
\* ERROR with the registry as the call found it and the store untouched, and
\* control is back in the caller's loop with the remaining events untouched.
C5_AddJobFailureLeavesRegistry ==
    [][\A t \in Threads :
         (/\ pc[t] = "sched_add"
          /\ pc'[t] \notin {"sched_add"} \cup Terminal
          /\ \E j \in jobs : j.id = call[t].job_id)
         => /\ outcome'[t] = "ERROR"
            /\ SCHEDULED_KEYS' = call[t].registry0
            /\ jobs' = jobs
            /\ pc'[t] = "loop"
            /\ todo'[t] = todo[t]]_vars

C5_Witness ==
    /\ outcome["main"] = "ERROR"
    /\ pc["main"] = "loop"
    /\ todo["main"] # <<>>
    /\ SCHEDULED_KEYS # {}

\* --------------------------------------------------------- the dedupe step alone
DedupEvents ==
    {Event(p, "Weekly", d, u) :
        p \in {"LeetCode", "CodeChef"},
        d \in {Aware(35, 0), Aware(95, 60), NoDt},
        u \in {"a", "b"}}

SeqsUpTo(S, n) == UNION {[1..k -> S] : k \in 0..n}

InitDedup ==
    /\ now = 0
    /\ env = None
    /\ csv = Csv(FALSE, <<>>)
    /\ site = <<>>
    /\ SCHEDULED_KEYS = {}
    /\ jobs = {}
    /\ hourlyAt = -1
    /\ weekly = {}
    /\ engine = "new"
    /\ pc = [t \in Threads |-> IF t = "main" THEN "dedupe" ELSE "idle"]
    /\ todo = [t \in Threads |-> <<>>]
    /\ call = [t \in Threads |-> NoCall]
    /\ ret = [t \in Threads |-> "idle"]
    /\ outcome = [t \in Threads |-> "NONE"]
    /\ passOut = [t \in Threads |-> "NONE"]
    /\ running = {}
    /\ sent = [m \in {} |-> 0]
    /\ finished = {}
    /\ regs = {}
    /\ interrupted = FALSE
    /\ dedupIn \in SeqsUpTo(DedupEvents, MaxDedupLen)
    /\ dedupOut = <<>>

\* fetchers.py lines 260-265 applied to the gathered events
DedupeStep ==
    /\ pc["main"] = "dedupe"
    /\ dedupOut' = Dedupe(dedupIn)
    /\ pc' = [pc EXCEPT !["main"] = "deduped"]
    /\ UNCHANGED <<now, cfgVars, SCHEDULED_KEYS, engVars, todo, call, ret, outcome,
                   passOut, cbVars, regs, interrupted, dedupIn>>

SpecDedup == InitDedup /\ [][DedupeStep]_vars

Triple(e) == <<e.platform, e.title, e.start_dt>>

\* C9: of all input events with the same (platform, title, start_dt) exactly
\* one is in the output, and every output event is the first input event with
\* its triple; so events with distinct triples are all kept.
C9_FirstOfEachTripleKept ==
    pc["main"] = "deduped" =>
        /\ \A i \in DOMAIN dedupIn :
              Cardinality({k \in DOMAIN dedupOut :
                             Triple(dedupOut[k]) = Triple(dedupIn[i])}) = 1
        /\ \A k \in DOMAIN dedupOut :
              \E i \in DOMAIN dedupIn :
                 /\ dedupIn[i] = dedupOut[k]
                 /\ \A m \in 1..(i - 1) : Triple(dedupIn[m]) # Triple(dedupIn[i])

C9_Witness ==
    /\ pc["main"] = "deduped"
    /\ Len(dedupOut) = 2
    /\ Len(dedupIn) = 3
    /\ dedupIn[1].url # dedupIn[3].url
    /\ Triple(dedupIn[1]) = Triple(dedupIn[3])

====
